---- MODULE Spec2Model ----
(***************************************************************************)
(* Cold-chain batching-and-integrity pipeline.                             *)
(*   traceability_backend/gateway.py      MQTT -> RabbitMQ bridge          *)
(*   traceability_backend/data_cleaner.py consumer: validate, hash, batch  *)
(*   comp6452/upload_to_ipfs.py           Merkle root, IPFS add, MySQL row *)
(*   traceability_backend/create_db.py    schema of table `batches`        *)
(*                                                                         *)
(* JSON values are kept as their JSON text ("1.0", "true", "\"hot\"").     *)
(* A JSON object / Python dict is an insertion-ordered sequence of         *)
(* <<name, value>> pairs without duplicate names.  A string that may hold  *)
(* '_' (a batch id, a file name) is the sequence of its '_'-separated      *)
(* segments, so that split('_') is an operation on it.                     *)
(***************************************************************************)
EXTENDS Integers, Sequences, FiniteSets, TLC

\* ---------------------------------------------------------------- bounds
MaxReadings == 5   \* readings the sensors publish, over all batch ids
MaxTyped    == 4   \* the same, when readings may also carry any JSON type
MaxSteady   == 8   \* the same, when every message is a well-formed reading
MaxFields   == 4   \* the same, when readings come with their fields in any order
MaxClock == 1      \* the UTC clock runs over the seconds 0..MaxClock
MaxList  == 5      \* longest fingerprint list handed to the aggregator alone

\* ------------------------------------------------------ program constants
MAX_PER_BATCH == 4

\* batch ids carried in the topic coldchain/<batch id>/sensor:
\* "b1" and "b2_x"
Keys == { <<"b1">>, <<"b2", "x">> }

Topic(k)  == <<"coldchain", k, "sensor">>
BadTopic  == <<"coldchain">>            \* a routing key without any '/'

\* ------------------------------------------------------------- JSON model
None == "None"                          \* Python's None

RangeOf(s) == { s[i] : i \in DOMAIN s }

\* dict operations on an association sequence
Has(d, k)    == \E i \in DOMAIN d : d[i][1] = k
Lookup(d, k) == d[CHOOSE i \in DOMAIN d : d[i][1] = k][2]      \* d[k]
Get(d, k)    == IF Has(d, k) THEN Lookup(d, k) ELSE None        \* d.get(k)

\* Python type of a decoded JSON value
PyType(v) ==
    IF v = None \/ v = "null"        THEN "NoneType"
    ELSE IF v \in {"true", "false"}  THEN "bool"
    ELSE IF v \in {"\"hot\"", "\"wet\"", "\"Beijing\"", "\"Beef\"", "\"s-17\""}
                                     THEN "str"
    ELSE "number"                        \* int or float

\* isinstance(v, (int, float)): bool is a subclass of int in Python
isinstance_int_float(v) == PyType(v) \in {"number", "bool"}

\* the sorted order of the key names that occur (json.dumps(sort_keys=True))
KeyOrder == <<"deviceId", "hum", "location", "productName", "temp", "ts">>

\* json.dumps(record) without sort_keys: the members in insertion order
json_dumps_insertion(d) == d

\* json.dumps(record, sort_keys=True): the members ordered by name
json_dumps_sorted(d) ==
    LET pick[i \in 0..Len(KeyOrder)] ==
          IF i = 0 THEN <<>>
          ELSE IF Has(d, KeyOrder[i])
               THEN Append(pick[i-1], <<KeyOrder[i], Lookup(d, KeyOrder[i])>>)
               ELSE pick[i-1]
    IN pick[Len(KeyOrder)]

\* hashlib.sha256(data).hexdigest(), collision-free: the digest names its input
sha256(data) == <<"sha256", data>>

calc_sha256(record) == sha256(json_dumps_sorted(record))

\* ---------------------------------------------------------- Merkle root
\* sha256(bytes.fromhex(a) + bytes.fromhex(b)): two 32-byte digests side by
\* side; the concatenation of fixed-length digests determines both halves
combine(a, b) == sha256(<<a, b>>)

\* an odd level left as it is, so that its last element finds no partner
pad_level_forgotten(current) == current

\* one pass of the while loop: pad an odd level, then hash adjacent pairs
pad_level(current) ==
    IF Len(current) % 2 = 1 THEN Append(current, current[Len(current)])
    ELSE current

next_level(current) ==
    LET padded == pad_level(current)
    IN [i \in 1..(Len(padded) \div 2) |-> combine(padded[2*i - 1], padded[2*i])]

RECURSIVE merkle_loop(_)
merkle_loop(current) ==
    IF Len(current) > 1 THEN merkle_loop(next_level(current))
    ELSE current[1]

\* None where a digest is expected
NoneDigest == <<"None">>

\* the list put into a canonical order before it is hashed
compute_merkle_root_sorted(hash_list) ==
    LET rank(d) == CHOOSE n \in 1..3 :
                      d = sha256(<< <<"hum", "80.0">>, <<"location", "\"Beijing\"">>,
                                    <<"productName", "\"Beef\"">>, <<"temp", "1.0">>,
                                    <<"ts", ToString(n)>> >>)
        count(n) == Cardinality({ i \in DOMAIN hash_list : rank(hash_list[i]) = n })
        run(n)   == [i \in 1..count(n) |-> CHOOSE d \in RangeOf(hash_list) : rank(d) = n]
    IN IF hash_list = <<>> THEN NoneDigest
       ELSE merkle_loop(run(1) \o run(2) \o run(3))

compute_merkle_root(hash_list) ==
    IF hash_list = <<>> THEN NoneDigest
    ELSE merkle_loop(hash_list)

\* ------------------------------------------------------------- messages
\* A message body is a JSON text: an object (its members in serialization
\* order), an array (its items), or text that is not JSON at all.
Object(members) == [kind |-> "object", members |-> members, items |-> <<>>]
Array(items)    == [kind |-> "array",  members |-> <<>>,    items |-> items]
Garbage         == [kind |-> "garbage", members |-> <<>>,   items |-> <<>>]
Empty           == [kind |-> "empty",  members |-> <<>>,    items |-> <<>>]

\* the n-th reading of a batch's sensor, as published (publish_test.py)
Event(n) == << <<"temp", "1.0">>, <<"hum", "80.0">>, <<"ts", ToString(n)>>,
               <<"location", "\"Beijing\"">>, <<"productName", "\"Beef\"">> >>

Without(d, k)    == SelectSeq(d, LAMBDA p : p[1] # k)
With(d, k, v)    == [i \in DOMAIN d |-> IF d[i][1] = k THEN <<k, v>> ELSE d[i]]

\* the bodies a publisher may send for the n-th reading: the reading itself,
\* or a message that lost or garbled some of it
Bodies(n) ==
    { Object(Event(n)),
      Object(With(Event(n), "temp", "\"hot\"")),
      Object(With(Event(n), "hum", "\"wet\"")),
      Object(Without(Event(n), "temp")),
      Object(Without(Event(n), "hum")),
      Object(Without(Event(n), "ts")),
      Object(Without(Event(n), "location")),
      Array(<<"\"temp\"", "\"hum\"", "\"ts\"">>),
      Garbage }

\* a reading whose temperature went out as a JSON boolean
TypedBodies(n) == { Object(With(Event(n), "temp", "true")) }

Reverse(s) == [i \in DOMAIN s |-> s[Len(s) + 1 - i]]

\* the n-th reading as other transports serialize it: the fields the other
\* way round, and with the sensor's device id sent along
FieldBodies(n) ==
    { Object(Event(n)),
      Object(Reverse(Event(n))),
      Object(Append(Event(n), <<"deviceId", "\"s-17\"">>)),
      Object(<< <<"deviceId", "\"s-17\"">> >> \o Event(n)) }

\* json.loads: the decoded value, or a JSONDecodeError
json_loads(body) ==
    CASE body.kind = "object" -> [type |-> "dict", dict |-> body.members, list |-> <<>>]
      [] body.kind = "array"  -> [type |-> "list", dict |-> <<>>, list |-> body.items]
      [] OTHER                -> [type |-> "JSONDecodeError", dict |-> <<>>, list |-> <<>>]

\* json.dumps(payload) of a decoded value (dicts keep insertion order)
json_dumps(value) ==
    IF value.type = "dict" THEN Object(value.dict) ELSE Array(value.list)

\* `k in payload`: a key of a dict, an element of a list
contains(value, k) ==
    IF value.type = "dict" THEN Has(value.dict, k)
    ELSE \E i \in DOMAIN value.list : value.list[i] = "\"" \o k \o "\""

\* ---------------------------------------------------------------- state
VARIABLES
    batch_cache,    \* data_cleaner.batch_cache: batch id -> list of records
    batches_dir,    \* ./batches: file name -> file content
    db,             \* rows of the MySQL table `batches`
    utcnow,         \* the UTC clock, in seconds
    delivery,       \* the message on the consumer's queue and how it was settled
    readings,       \* batch id -> readings its sensor has published so far
    upload_log,     \* the last run of process_batch_file: its file, end and time
    hash_list,      \* the fingerprint list handed to the aggregator
    agg             \* what compute_merkle_root(hash_list) gave

vars == <<batch_cache, batches_dir, db, utcnow, delivery, readings, upload_log, hash_list, agg>>

\* a file name '<batch id>_<timestamp>.json'
FileName(batch_id, timestamp) == [batch_id |-> batch_id, timestamp |-> timestamp]

NoDelivery == [routing_key |-> <<>>, body |-> Empty,
               settled |-> "none", requeue |-> FALSE]

NoUpload == [path |-> FileName(<<>>, 0), ended |-> "idle", at |-> 0]

NoAgg == [status |-> "idle", root |-> NoneDigest]

\* f with the file `name` created or overwritten
Put(f, name, content) ==
    [n \in DOMAIN f \cup {name} |-> IF n = name THEN content ELSE f[n]]

EmptyDir == [n \in {} |-> <<>>]

Init ==
    /\ batch_cache = [k \in Keys |-> <<>>]
    /\ batches_dir = EmptyDir
    /\ db = {}
    /\ utcnow = 0
    /\ delivery = NoDelivery
    /\ readings = [k \in Keys |-> 0]
    /\ upload_log = NoUpload
    /\ hash_list = <<>>
    /\ agg = NoAgg

\* ------------------------------------------------- gateway.py on_message
\* An MQTT message on coldchain/+/sensor: its payload text, maybe wrapped in
\* one pair of quotes, which the gateway peels off before parsing.
RawPayloads(bodies) == [quoted : BOOLEAN, text : bodies \cup {Empty}]

\* what the gateway publishes to the exchange for one MQTT message: the set
\* holding the forwarded message, or the empty set when it skips the message
gateway_on_message(raw, topic) ==
    LET payload == json_loads(raw.text)
    IN IF raw.text.kind = "empty" THEN {}
       ELSE IF payload.type = "JSONDecodeError" THEN {}
       ELSE IF \A k \in {"temp", "hum", "ts"} : contains(payload, k)
            THEN { [routing_key |-> topic, body |-> json_dumps(payload)] }
            ELSE {}

\* the broker puts a published message on the consumer's queue; the consumer
\* (a BlockingConnection) runs one callback at a time, in queue order.  A
\* message that carries the sensor's next reading uses the reading up.
Published == readings[<<"b1">>] + readings[<<"b2", "x">>]

CarriesReading(body, n) ==
    body \in {Object(Event(n))} \cup TypedBodies(n) \cup FieldBodies(n)

Enqueue(k, m) ==
    /\ delivery.settled # "unsettled"
    /\ delivery' = [routing_key |-> m.routing_key, body |-> m.body,
                    settled |-> "unsettled", requeue |-> FALSE]
    /\ readings' = [readings EXCEPT ![k] =
                       IF CarriesReading(m.body, @ + 1) THEN @ + 1 ELSE @]

GatewayOnMessage ==
    /\ Published < MaxReadings
    /\ \E k \in Keys : \E raw \in RawPayloads(Bodies(readings[k] + 1)) :
         \E m \in gateway_on_message(raw, Topic(k)) : Enqueue(k, m)
    /\ UNCHANGED <<batch_cache, batches_dir, db, utcnow, upload_log, hash_list, agg>>

\* any other publisher to the exchange raw_data (the consumer binds '#')
Publish ==
    /\ Published < MaxReadings
    /\ \E k \in Keys : \E rk \in {Topic(k), BadTopic} :
         \E body \in Bodies(readings[k] + 1) :
           Enqueue(k, [routing_key |-> rk, body |-> body])
    /\ UNCHANGED <<batch_cache, batches_dir, db, utcnow, upload_log, hash_list, agg>>

\* sensors that publish nothing but their readings, through the gateway
GatewayOnReading ==
    /\ Published < MaxSteady
    /\ \E k \in Keys :
         \E raw \in RawPayloads({Object(Event(readings[k] + 1))}) :
           \E m \in gateway_on_message(raw, Topic(k)) : Enqueue(k, m)
    /\ UNCHANGED <<batch_cache, batches_dir, db, utcnow, upload_log, hash_list, agg>>

\* a sensor whose readings may carry any JSON type, through the gateway
GatewayOnTyped ==
    /\ Published < MaxTyped
    /\ \E k \in Keys :
         \E raw \in RawPayloads(Bodies(readings[k] + 1) \cup TypedBodies(readings[k] + 1)) :
           \E m \in gateway_on_message(raw, Topic(k)) : Enqueue(k, m)
    /\ UNCHANGED <<batch_cache, batches_dir, db, utcnow, upload_log, hash_list, agg>>

\* sensors whose readings come with their fields in any order, or with the
\* device id sent along, through the gateway
GatewayOnFields ==
    /\ Published < MaxFields
    /\ \E k \in Keys :
         \E raw \in RawPayloads(FieldBodies(readings[k] + 1)) :
           \E m \in gateway_on_message(raw, Topic(k)) : Enqueue(k, m)
    /\ UNCHANGED <<batch_cache, batches_dir, db, utcnow, upload_log, hash_list, agg>>

\* -------------------------------------------------------- data_cleaner.py
\* how the write of the artifact may end: written; open() (or makedirs)
\* raises and nothing is touched; open() truncated or created the file and
\* json.dump raises part-way, leaving text that is no JSON
IOOutcomes == {"written", "open_raises", "dump_raises"}

FileContent(records) == [records |-> records, complete |-> TRUE]
PartialFile          == [records |-> <<>>, complete |-> FALSE]

flush_due(records) == Len(records) >= MAX_PER_BATCH

\* try_flush_batch with the cache cleared also when the write raised
try_flush_batch_clears_anyway(cache, dir, clock, batch_id, io) ==
    LET records == cache[batch_id]
        path    == FileName(batch_id, clock)
        cleared == [cache EXCEPT ![batch_id] = <<>>]
    IN IF Len(records) >= MAX_PER_BATCH
       THEN CASE io = "written" ->
                   [cache |-> cleared,
                    dir |-> Put(dir, path, FileContent(records)), raised |-> FALSE]
              [] io = "open_raises" ->
                   [cache |-> cleared, dir |-> dir, raised |-> TRUE]
              [] OTHER ->
                   [cache |-> cleared, dir |-> Put(dir, path, PartialFile), raised |-> TRUE]
       ELSE [cache |-> cache, dir |-> dir, raised |-> FALSE]

\* try_flush_batch with the time of writing put into the file as well
try_flush_batch_stamps_content(cache, dir, clock, batch_id, io) ==
    LET records == cache[batch_id]
        path    == FileName(batch_id, clock)
        stamped == [records |-> records, complete |-> TRUE, written_at |-> clock]
    IN IF Len(records) >= MAX_PER_BATCH
       THEN CASE io = "written" ->
                   [cache |-> [cache EXCEPT ![batch_id] = <<>>],
                    dir |-> Put(dir, path, stamped), raised |-> FALSE]
              [] io = "open_raises" ->
                   [cache |-> cache, dir |-> dir, raised |-> TRUE]
              [] OTHER ->
                   [cache |-> cache, dir |-> Put(dir, path, PartialFile), raised |-> TRUE]
       ELSE [cache |-> cache, dir |-> dir, raised |-> FALSE]

\* try_flush_batch: the cache and directory it leaves, and whether it raised
try_flush_batch(cache, dir, clock, batch_id, io) ==
    LET records == cache[batch_id]
        path    == FileName(batch_id, clock)
    IN IF flush_due(records)
       THEN CASE io = "written" ->
                   [cache |-> [cache EXCEPT ![batch_id] = <<>>],
                    dir |-> Put(dir, path, FileContent(records)), raised |-> FALSE]
              [] io = "open_raises" ->
                   [cache |-> cache, dir |-> dir, raised |-> TRUE]
              [] OTHER ->
                   [cache |-> cache, dir |-> Put(dir, path, PartialFile), raised |-> TRUE]
       ELSE [cache |-> cache, dir |-> dir, raised |-> FALSE]

\* the deep validation of lines 45-48: both readings are int or float
validated(payload) ==
    /\ isinstance_int_float(Get(payload, "temp"))
    /\ isinstance_int_float(Get(payload, "hum"))

make_record(batch_id, payload) ==
    [batch_id    |-> batch_id,
     ts          |-> Lookup(payload, "ts"),
     temp        |-> Lookup(payload, "temp"),
     hum         |-> Lookup(payload, "hum"),
     location    |-> Lookup(payload, "location"),
     productName |-> Lookup(payload, "productName"),
     hash        |-> calc_sha256(payload)]

\* the record put at the head of the list instead of its end
append_record_at_head(records, record) == <<record>> \o records

append_record(records, record) == Append(records, record)

\* basic_nack left at pika's default, requeue=True
Settled_requeue(cache, dir, method) ==
    [cache |-> cache, dir |-> dir, method |-> method,
     requeue |-> (method = "basic_nack")]

Settled(cache, dir, method) ==
    [cache |-> cache, dir |-> dir, method |-> method, requeue |-> FALSE]

\* on_message: the cache and directory it leaves and how it settles the
\* delivery (basic_ack, or basic_nack with requeue=False)
on_message(cache, dir, clock, m, io) ==
    LET decoded == json_loads(m.body)
        payload == decoded.dict
    IN IF decoded.type = "JSONDecodeError"
       THEN Settled(cache, dir, "basic_nack")              \* json.loads raises
       ELSE IF Len(m.routing_key) < 2
       THEN Settled(cache, dir, "basic_nack")              \* split('/')[1]: IndexError
       ELSE IF decoded.type # "dict"
       THEN Settled(cache, dir, "basic_nack")              \* list has no .get
       ELSE IF ~validated(payload)
       THEN Settled(cache, dir, "basic_ack")               \* dropped
       ELSE IF \E k \in {"ts", "location", "productName"} : ~Has(payload, k)
       THEN Settled(cache, dir, "basic_nack")              \* KeyError
       ELSE LET batch_id == m.routing_key[2]
                added == [cache EXCEPT ![batch_id] =
                              append_record(cache[batch_id], make_record(batch_id, payload))]
                flushed == try_flush_batch(added, dir, clock, batch_id, io)
            IN IF flushed.raised
               THEN Settled(flushed.cache, flushed.dir, "basic_nack")
               ELSE Settled(flushed.cache, flushed.dir, "basic_ack")

CleanerOnMessage ==
    /\ delivery.settled = "unsettled"
    /\ \E io \in IOOutcomes :
         LET r == on_message(batch_cache, batches_dir, utcnow, delivery, io)
         IN /\ batch_cache' = r.cache
            /\ batches_dir' = r.dir
            /\ delivery' = [delivery EXCEPT !.settled = r.method, !.requeue = r.requeue]
    /\ UNCHANGED <<db, utcnow, readings, upload_log, hash_list, agg>>

\* the consumer process is stopped or killed and started again: the module
\* is loaded anew with an empty batch_cache; the files stay, a message it had
\* settled is gone from the queue, one it had not settled is delivered again
Restart ==
    /\ batch_cache' = [k \in Keys |-> <<>>]
    /\ UNCHANGED <<batches_dir, db, utcnow, delivery, readings, upload_log, hash_list, agg>>

\* a second passes
Tick ==
    /\ utcnow < MaxClock
    /\ utcnow' = utcnow + 1
    /\ UNCHANGED <<batch_cache, batches_dir, db, delivery, readings, upload_log, hash_list, agg>>

\* ------------------------------------------------------ upload_to_ipfs.py
\* upload_file_via_cli: `ipfs add -Q` names the file by its content
upload_file_via_cli(content) == <<"cid", content.records>>

\* the value MySQL stores for merkle_root: the column is TEXT NOT NULL and
\* the statement is INSERT IGNORE, which turns the NULL error into a warning
\* and stores the column's implicit default, the empty string
EmptyText == <<>>
stored_root(merkle_root) ==
    IF merkle_root = NoneDigest THEN EmptyText ELSE merkle_root

\* REPLACE INTO batches ...: the new row takes the place of the old one
insert_replace(rows, row) ==
    { r \in rows : r.batch_id # row.batch_id } \cup {row}

\* INSERT IGNORE INTO batches ... with PRIMARY KEY (batch_id)
insert_ignore(rows, row) ==
    IF \E r \in rows : r.batch_id = row.batch_id THEN rows
    ELSE rows \cup {row}

\* os.path.basename(path).split('_')[0]
batch_id_of_path(path) == << Head(path.batch_id) >>

\* process_batch_file: the rows it leaves and how it ended
process_batch_file(rows, dir, clock, path, ipfs) ==
    LET content == dir[path]
        records == content.records
        merkle_root ==
            compute_merkle_root([i \in DOMAIN records |-> records[i].hash])
        row == [batch_id     |-> batch_id_of_path(path),
                ipfs_cid     |-> upload_file_via_cli(content),
                merkle_root  |-> stored_root(merkle_root),
                record_count |-> Len(records),
                created_at   |-> clock]
    IN IF ~content.complete
       THEN [db |-> rows, log |-> "JSONDecodeError"]        \* json.load raises
       ELSE IF ipfs = "failed"
       THEN [db |-> rows, log |-> "RuntimeError"]           \* IPFS add failed
       ELSE [db |-> insert_ignore(rows, row), log |-> "committed"]

\* main() of upload_to_ipfs.py takes the files of ./batches in the order
\* os.listdir gives them, and the script is run again and again
ProcessBatchFile ==
    /\ \E path \in DOMAIN batches_dir : \E ipfs \in {"added", "failed"} :
         LET r == process_batch_file(db, batches_dir, utcnow, path, ipfs)
         IN /\ db' = r.db
            /\ upload_log' = [path |-> path, ended |-> r.log, at |-> utcnow]
    /\ UNCHANGED <<batch_cache, batches_dir, utcnow, delivery, readings, hash_list, agg>>

Next ==
    \/ GatewayOnMessage
    \/ Publish
    \/ CleanerOnMessage
    \/ Tick
    \/ ProcessBatchFile

Spec == Init /\ [][Next]_vars

\* the same pipeline fed with readings of any JSON type
NextTyped ==
    \/ GatewayOnTyped
    \/ CleanerOnMessage
    \/ Tick
    \/ ProcessBatchFile

SpecTyped == Init /\ [][NextTyped]_vars

\* the same pipeline fed with well-formed readings only, for longer
NextSteady ==
    \/ GatewayOnReading
    \/ CleanerOnMessage
    \/ Tick
    \/ ProcessBatchFile

SpecSteady == Init /\ [][NextSteady]_vars

\* the same, with the scheduling the claims on progress assume: the consumer
\* handles every message that is queued, and writes succeed in the end (a
\* message that keeps being queued is at some time handled without error).
\* The sensors are free to stop publishing.
AckedHandling == CleanerOnMessage /\ delivery'.settled = "basic_ack"

SpecLive ==
    SpecSteady /\ WF_vars(CleanerOnMessage) /\ SF_vars(AckedHandling) /\ WF_vars(Tick)

\* the pipeline fed with well-formed readings, its consumer restarted at
\* any time
NextCrash ==
    \/ GatewayOnReading
    \/ CleanerOnMessage
    \/ Tick
    \/ ProcessBatchFile
    \/ Restart

SpecCrash == Init /\ [][NextCrash]_vars

\* the same pipeline fed with readings serialized in several ways
NextFields ==
    \/ GatewayOnFields
    \/ CleanerOnMessage
    \/ Tick
    \/ ProcessBatchFile

SpecFields == Init /\ [][NextFields]_vars

\* ------------------------------------------- the aggregator and uploader
\* on a directory given to them: one artifact whose records carry the
\* fingerprints of hash_list
Digests == { calc_sha256(Event(n)) : n \in 1..3 }

RECURSIVE ListsUpTo(_)
ListsUpTo(n) ==
    IF n = 0 THEN { <<>> }
    ELSE ListsUpTo(n - 1) \cup
         { Append(l, d) : l \in { x \in ListsUpTo(n - 1) : Len(x) = n - 1 }, d \in Digests }

ArtifactOf(hashes) ==
    FileContent([i \in DOMAIN hashes |->
        [batch_id |-> <<"b1">>, ts |-> ToString(i), temp |-> "1.0", hum |-> "80.0",
         location |-> "\"Beijing\"", productName |-> "\"Beef\"", hash |-> hashes[i]]])

InitAgg ==
    /\ hash_list \in ListsUpTo(MaxList)
    /\ batches_dir = Put(EmptyDir, FileName(<<"b1">>, 0), ArtifactOf(hash_list))
    /\ batch_cache = [k \in Keys |-> <<>>]
    /\ db = {}
    /\ utcnow = 0
    /\ delivery = NoDelivery
    /\ readings = [k \in Keys |-> 0]
    /\ upload_log = NoUpload
    /\ agg = NoAgg

\* compute_merkle_root(hash_list) is called and returns
Aggregate ==
    /\ agg.status = "idle"
    /\ agg' = [status |-> "returned", root |-> compute_merkle_root(hash_list)]
    /\ UNCHANGED <<batch_cache, batches_dir, db, utcnow, delivery, readings, upload_log, hash_list>>

NextAgg ==
    \/ Aggregate
    \/ ProcessBatchFile

SpecAgg == InitAgg /\ [][NextAgg]_vars

\* ================================================================ claims
\* what the claims call a valid message: an object with all five fields
\* whose temp and hum are JSON numbers
IsJsonNumber(v) == PyType(v) = "number"

WellFormed(body) ==
    /\ body.kind = "object"
    /\ \A k \in {"temp", "hum", "ts", "location", "productName"} : Has(body.members, k)
    /\ IsJsonNumber(Lookup(body.members, "temp"))
    /\ IsJsonNumber(Lookup(body.members, "hum"))

\* what C2 calls malformed: temp, hum or ts missing, or temp or hum no number
Malformed(body) ==
    /\ body.kind = "object"
    /\ \/ \E k \in {"temp", "hum", "ts"} : ~Has(body.members, k)
       \/ ~IsJsonNumber(Get(body.members, "temp"))
       \/ ~IsJsonNumber(Get(body.members, "hum"))

\* the step in which the consumer handles and settles the queued message
Handling == delivery.settled = "unsettled" /\ delivery'.settled # "unsettled"

\* the queued message is a valid one for batch id k
ValidFor(k) == delivery.routing_key = Topic(k) /\ WellFormed(delivery.body)

RecordOf(m) == make_record(m.routing_key[2], m.body.members)

Artifacts == { p \in DOMAIN batches_dir : batches_dir[p].complete }

IsPrefix(a, b) == Len(a) <= Len(b) /\ \A i \in DOMAIN a : a[i] = b[i]

\* C1: the MAX_PER_BATCH-th valid arrival for a key since the key was last
\* empty seals (one artifact written with the accumulated records, the
\* key's cache entry cleared), and the arrival after it starts a batch that
\* holds that one record only.
C1_NthArrivalSeals ==
    [][\A k \in Keys : (Handling /\ ValidFor(k)) =>
          LET held == Append(batch_cache[k], RecordOf(delivery))
          IN /\ Len(held) = MAX_PER_BATCH =>
                  /\ batch_cache'[k] = <<>>
                  /\ \E p \in DOMAIN batches_dir' :
                        batches_dir' = Put(batches_dir, p, FileContent(held))
             /\ Len(held) = MAX_PER_BATCH + 1 =>
                  batch_cache'[k] = << RecordOf(delivery) >>]_vars

\* C2: handling a malformed message leaves every key's record count as it
\* was.
C2_MalformedLeavesCounts ==
    [][(Handling /\ Malformed(delivery.body)) =>
          \A k \in Keys : Len(batch_cache'[k]) = Len(batch_cache[k])]_vars

\* C3: when the write of a flush fails, every record accumulated for the key
\* stays in the key's cache entry, and records leave the entry only in the
\* step that writes a complete artifact holding all of them.
C3_FailedWriteKeepsRecords ==
    [][\A k \in Keys :
          /\ (Handling /\ ValidFor(k) /\ delivery'.settled = "basic_nack") =>
                batch_cache'[k] = Append(batch_cache[k], RecordOf(delivery))
          /\ \/ IsPrefix(batch_cache[k], batch_cache'[k])
             \/ /\ batch_cache'[k] = <<>>
                /\ \E p \in DOMAIN batches_dir' :
                      /\ p.batch_id = k
                      /\ batches_dir'[p].complete
                      /\ batches_dir' # batches_dir
                      /\ batches_dir' = Put(batches_dir, p, batches_dir'[p])
                      /\ IsPrefix(batch_cache[k], batches_dir'[p].records)]_vars

\* a write failed and the next successful flush wrote all the records held
C3_Witness ==
    \E p \in Artifacts :
        /\ Len(batches_dir[p].records) > MAX_PER_BATCH
        /\ batch_cache[p.batch_id] = <<>>

\* the record of the settled delivery is in its key's open batch or in an
\* artifact
Incorporated(m) ==
    \/ \E i \in DOMAIN batch_cache[m.routing_key[2]] :
          batch_cache[m.routing_key[2]][i] = RecordOf(m)
    \/ \E p \in Artifacts : \E i \in DOMAIN batches_dir[p].records :
          batches_dir[p].records[i] = RecordOf(m)

ReadingNo(record) == CHOOSE n \in 1..(MaxSteady + MaxReadings + 2) : ToString(n) = record.ts

\* C5: in every artifact the records are in the order their messages
\* arrived for that key, and all of them belong to the artifact's key.
C5_ArrivalOrder ==
    \A p \in Artifacts :
        LET records == batches_dir[p].records
        IN /\ \A i \in DOMAIN records : records[i].batch_id = p.batch_id
           /\ \A i, j \in DOMAIN records :
                 i < j => ReadingNo(records[i]) < ReadingNo(records[j])

\* an artifact was sealed while records of the other key had arrived
C5_Witness ==
    \E p \in Artifacts : \E k \in Keys :
        /\ k # p.batch_id
        /\ batch_cache[k] # <<>>
        /\ Len(batches_dir[p].records) >= MAX_PER_BATCH

\* the root of the level-by-level algorithm, written out for each length
ExpectedRoot(l) ==
    LET H(a, b) == combine(a, b)
    IN CASE Len(l) = 1 -> l[1]
         [] Len(l) = 2 -> H(l[1], l[2])
         [] Len(l) = 3 -> H(H(l[1], l[2]), H(l[3], l[3]))
         [] Len(l) = 4 -> H(H(l[1], l[2]), H(l[3], l[4]))
         [] Len(l) = 5 -> H(H(H(l[1], l[2]), H(l[3], l[4])),
                            H(H(l[5], l[5]), H(l[5], l[5])))
         [] Len(l) = 6 -> H(H(H(l[1], l[2]), H(l[3], l[4])),
                            H(H(l[5], l[6]), H(l[5], l[6])))

\* C6: for a non-empty fingerprint list compute_merkle_root returns the
\* root of the reference algorithm: one element gives that element, four
\* give H(H(r1+r2) + H(r3+r4)), an odd level has its last element doubled.
C6_ReferenceRoot ==
    (agg.status = "returned" /\ Len(hash_list) \in 1..6)
        => agg.root = ExpectedRoot(hash_list)

\* the aggregator returned the root of a list whose levels need padding
C6_Witness ==
    /\ agg.status = "returned"
    /\ Len(hash_list) = 5
    /\ agg.root = ExpectedRoot(hash_list)

\* C7: an artifact whose record list is empty gets no metadata row.
C7_NoRowForEmptyBatch ==
    \A p \in Artifacts :
        batches_dir[p].records = <<>> =>
            \A row \in db : row.batch_id # batch_id_of_path(p)

Permuted(l, f) == [i \in DOMAIN l |-> l[f[i]]]

\* C8: for a list of two or more fingerprints, every permutation that gives
\* a different list gives a different root.
C8_OrderSensitive ==
    (agg.status = "returned" /\ Len(hash_list) >= 2) =>
        \A f \in Permutations(DOMAIN hash_list) :
            Permuted(hash_list, f) # hash_list =>
                compute_merkle_root(Permuted(hash_list, f)) # agg.root

\* the aggregator returned the root of a list that has a different reordering
C8_Witness ==
    /\ agg.status = "returned"
    /\ Len(hash_list) = 4
    /\ \E f \in Permutations(DOMAIN hash_list) : Permuted(hash_list, f) # hash_list

HashesOf(p) == [i \in DOMAIN batches_dir[p].records |-> batches_dir[p].records[i].hash]

\* C9: for every artifact, the root recomputed from the digests stored in it
\* is the merkle_root recorded in the row of the artifact's batch id.
C9_RoundTrip ==
    \A p \in Artifacts : \A row \in db :
        row.batch_id = batch_id_of_path(p) =>
            row.merkle_root = compute_merkle_root(HashesOf(p))

\* C10: the table holds at most one row per batch id, and a row once
\* written stays as it is, whatever is processed afterwards.
C10_RowWrittenOnce ==
    [][/\ \A r1, r2 \in db' : r1.batch_id = r2.batch_id => r1 = r2
       /\ db \subseteq db']_vars

\* process_batch_file committed again for a batch id whose row is older
C10_Witness ==
    /\ upload_log.ended = "committed"
    /\ \E row \in db :
          /\ row.batch_id = batch_id_of_path(upload_log.path)
          /\ row.created_at < upload_log.at

Rotated(s, r) == [i \in DOMAIN s |-> s[((i - 1 + r) % Len(s)) + 1]]

\* messages that carry the fields of body in another serialization order:
\* every rotation of the fields, forwards and backwards
Reorderings(body) ==
    { Object(Rotated(body.members, r)) : r \in DOMAIN body.members }
    \cup { Object(Reverse(Rotated(body.members, r))) : r \in DOMAIN body.members }

\* C11: handling a valid message leaves the state, fingerprints included,
\* that handling any message with the same field names and values in another
\* serialization order would have left: the fingerprint of a record does
\* not depend on the order of the fields in the raw message.
C11_FieldOrderIndependent ==
    [][(Handling /\ delivery.body.kind = "object" /\ validated(delivery.body.members)) =>
          \A b \in Reorderings(delivery.body) :
              /\ calc_sha256(b.members) = calc_sha256(delivery.body.members)
              /\ \E io \in IOOutcomes :
                    LET r == on_message(batch_cache, batches_dir, utcnow,
                                        [delivery EXCEPT !.body = b], io)
                    IN r.cache = batch_cache' /\ r.dir = batches_dir']_vars

\* a reading whose fields came in an order other than the sorted one was
\* accepted and its record is held
C11_Witness ==
    /\ delivery.settled = "basic_ack"
    /\ delivery.body.kind = "object"
    /\ delivery.body.members = Reverse(Event(2))
    /\ Len(delivery.routing_key) >= 2
    /\ Incorporated(delivery)

\* the original event fields stored in a record of an artifact
StoredEvent(record) ==
    << <<"ts", record.ts>>, <<"temp", record.temp>>, <<"hum", record.hum>>,
       <<"location", record.location>>, <<"productName", record.productName>> >>

\* C12: the digest stored in every record of every artifact is the
\* fingerprint of the event fields stored in that record.
C12_RehashFromArtifact ==
    \A p \in Artifacts : \A i \in DOMAIN batches_dir[p].records :
        batches_dir[p].records[i].hash = calc_sha256(StoredEvent(batches_dir[p].records[i]))

\* the readings of key k whose messages the consumer has handled
HandledReadings(k) ==
    { n \in 1..readings[k] :
        ~(delivery.settled = "unsettled" /\ delivery.routing_key = Topic(k)
            /\ n = readings[k]) }

\* the places where the record of reading n of key k is held: a position in
\* the key's open batch, or a position in an artifact of the key
PlacesOf(k, n) ==
    { <<"open", i>> : i \in { j \in DOMAIN batch_cache[k] :
                                batch_cache[k][j].ts = ToString(n) } }
    \cup UNION { { <<p, i>> : i \in { j \in DOMAIN batches_dir[p].records :
                                        batches_dir[p].records[j].ts = ToString(n) } } :
                 p \in { q \in Artifacts : q.batch_id = k } }

\* C13: message handlings for a key never lose a record or count it twice:
\* the record of every reading handled so far is in exactly one place, the
\* key's open batch or one artifact.
C13_ExactlyOnce ==
    \A k \in Keys : \A n \in HandledReadings(k) : Cardinality(PlacesOf(k, n)) = 1

\* C14: once a key holds MAX_PER_BATCH records or more, every one of them
\* is eventually in an artifact of the key, whether or not further messages
\* arrive for the key.
C14_SealedBatchEventuallyWritten ==
    \A k \in Keys : \A n \in 1..MaxSteady :
        (flush_due(batch_cache[k]) /\ \E i \in DOMAIN batch_cache[k] :
                                          batch_cache[k][i].ts = ToString(n))
            ~> (\E p \in Artifacts : \E i \in DOMAIN batches_dir[p].records :
                    /\ p.batch_id = k
                    /\ batches_dir[p].records[i].ts = ToString(n))

\* C15: across restarts of the consumer, the event of a message that was
\* acknowledged as accepted is held in its key's open batch or in an
\* artifact.
C15_AckedSurvivesRestart ==
    \A k \in Keys :
        (delivery.settled = "basic_ack" /\ delivery.routing_key = Topic(k)
            /\ WellFormed(delivery.body))
        => \/ \E i \in DOMAIN batch_cache[k] : batch_cache[k][i] = RecordOf(delivery)
           \/ \E p \in Artifacts : \E i \in DOMAIN batches_dir[p].records :
                 batches_dir[p].records[i] = RecordOf(delivery)

\* the content of the file that emitting the records held for key k writes,
\* at time clock into directory dir
Emitted(dir, clock, k) ==
    try_flush_batch(batch_cache, dir, clock, k, "written").dir[FileName(k, clock)]

\* C16: emitting the same sealed record list twice, the second time later
\* and into the directory the first attempt left (whether that attempt wrote
\* the file or broke off part-way), yields the same content both times: the
\* content is the ordered records and nothing else.
C16_EmissionIdempotent ==
    \A k \in Keys : flush_due(batch_cache[k]) =>
        \A c1, c2 \in 0..MaxClock : \A io \in IOOutcomes :
            LET first == try_flush_batch(batch_cache, batches_dir, c1, k, io)
            IN /\ Emitted(first.dir, c2, k) = Emitted(batches_dir, c1, k)
               /\ Emitted(first.dir, c2, k).complete
               /\ Emitted(first.dir, c2, k).records = batch_cache[k]

\* a sealed record list is held after its write broke off part-way, and the
\* clock has moved on since
C16_Witness ==
    \E k \in Keys :
        /\ flush_due(batch_cache[k])
        /\ utcnow > 0
        /\ \E p \in DOMAIN batches_dir :
              p.batch_id = k /\ p.timestamp < utcnow /\ ~batches_dir[p].complete

\* no message is being handled: the queued message, if any, has been settled
Idle == delivery.settled # "unsettled"

\* C17: every artifact holds exactly MAX_PER_BATCH records, and while no
\* message is being handled every key's open batch holds fewer than
\* MAX_PER_BATCH records.
C17_BatchSizeExact ==
    /\ \A p \in Artifacts : Len(batches_dir[p].records) = MAX_PER_BATCH
    /\ Idle => \A k \in Keys : Len(batch_cache[k]) < MAX_PER_BATCH

\* C18: an artifact, once written, stays as it was written: no later seal
\* (or attempt to seal) replaces or removes it.
C18_ArtifactNeverOverwritten ==
    [][\A p \in Artifacts :
          /\ p \in DOMAIN batches_dir'
          /\ batches_dir'[p] = batches_dir[p]]_vars

\* C19: when the handling of a message ends in the negative acknowledgment,
\* the batch cache is as it was before the message was handled.
C19_NackLeavesCache ==
    [][(Handling /\ delivery'.settled = "basic_nack") => batch_cache' = batch_cache]_vars

\* C20: a non-empty fingerprint list that differs from the one aggregated,
\* whether in its elements or in its length, has a different root.
C20_RootCommitsToList ==
    (agg.status = "returned" /\ hash_list # <<>>) =>
        \A l \in ListsUpTo(MaxList) :
            (l # <<>> /\ l # hash_list) => compute_merkle_root(l) # agg.root

====
